---- MODULE Spec2Model ----
(***************************************************************************)
(* Model of the two widgets of the repository:                             *)
(*   - TreeView   (tree-view/src/TreeView.tsx): a forest of TreeNode       *)
(*     edited by the handlers handleToggle, handleAddChild, handleEdit,    *)
(*     handleDelete, handleLoadChildren (asynchronous) and handleDragEnd;  *)
(*   - KanbanBoard (kanban-board/src/KanbanBoard.tsx): columns of cards    *)
(*     edited by handleAddCard, handleEditCard, handleDeleteCard and       *)
(*     handleDragEnd;                                                      *)
(*   - the TreeNode component (tree-view/src/TreeNode.tsx), whose          *)
(*     handleToggle decides whether a click reaches the TreeView; and the  *)
(*     two App components, which keep what the on-change callbacks         *)
(*     (onDataChange, onColumnsChange) were last called with.              *)
(*                                                                         *)
(* Conventions                                                             *)
(*   - ids are integers; generateId() is a counter (every minted id is     *)
(*     fresh, as `node-<time>-<random>` is in practice).                   *)
(*   - a TreeNode is a record; the optional field `children` is the pair   *)
(*     hasChildren (children !== undefined) / children (<<>> if absent).   *)
(*     The optional booleans isExpanded, isLoading, hasLoaded are only     *)
(*     ever read for truthiness, so an absent flag is modelled as FALSE.   *)
(*   - sequences are 1-based: JavaScript index i is index i+1 here.        *)
(*   - a handler runs on the state it was rendered with, so the `data`     *)
(*     (`columns`) of its closure is the `prev` of its state updater.      *)
(***************************************************************************)
EXTENDS Integers, Sequences, FiniteSets, TLC

VARIABLES
  data,      \* TreeView: useState<TreeNode[]>          (the forest)
  inflight,  \* TreeView: ids whose simulateLazyLoad() timer is pending, FIFO
  nextId,    \* TreeView: counter behind generateId()
  columns,   \* KanbanBoard: useState<Column[]>
  cardSeq,   \* KanbanBoard: counter behind generateId()
  lastOp,    \* the last handler that ran, with its arguments
  ops,       \* number of user events dispatched so far
  treeData,  \* tree-view App: the forest last passed to onDataChange
  appColumns \* kanban-board App: the columns last passed to onColumnsChange

vars == <<data, inflight, nextId, columns, cardSeq, lastOp, ops,
          treeData, appColumns>>

treeVars == <<data, inflight, nextId, treeData>>
kanbanVars == <<columns, cardSeq, appColumns>>

(***************************************************************************)
(* Bounds                                                                  *)
(***************************************************************************)
\* number of user events (handler invocations) in a behaviour
MaxOps == 2
\* number of lazy loads that may be pending at the same time
MaxInflight == 2

\* an id that is never minted (an event may carry an id that is not present)
UnknownId == 0
\* event.over === null
NoOver == -1

\* names typed by the user
Names == {"x"}

(***************************************************************************)
(* TreeNode                                                                *)
(***************************************************************************)
TreeNode(id, name, hasChildren, children, isExpanded, hasLoaded) ==
  [id |-> id, name |-> name, hasChildren |-> hasChildren,
   children |-> children, isExpanded |-> isExpanded,
   isLoading |-> FALSE, hasLoaded |-> hasLoaded]

\* { id, name, hasLoaded: false }: the node built by handleAddChild and by
\* simulateLazyLoad
newNode(id, name) == TreeNode(id, name, FALSE, <<>>, FALSE, FALSE)

\* array.filter((_, i) => i !== index), index 1-based
filterIndex(s, index) ==
  [k \in 1..(Len(s) - (IF index \in 1..Len(s) THEN 1 ELSE 0)) |->
     IF k < index THEN s[k] ELSE s[k + 1]]

(***************************************************************************)
(* findNode: depth-first search.  `root` records that the returned parent  *)
(* array is the array the search was started on (the test                  *)
(* `activeParent === prev` of handleDragEnd is a reference comparison).    *)
(***************************************************************************)
NotFound == [found |-> FALSE]

RECURSIVE findNodeFrom(_, _, _, _)
findNodeFrom(nodes, id, i, root) ==
  IF i > Len(nodes) THEN NotFound
  ELSE IF nodes[i].id = id
    THEN [found |-> TRUE, node |-> nodes[i], parent |-> nodes,
          index |-> i, root |-> root]
  ELSE LET found == IF nodes[i].hasChildren
                      THEN findNodeFrom(nodes[i].children, id, 1, FALSE)
                      ELSE NotFound
       IN IF found.found THEN found
          ELSE findNodeFrom(nodes, id, i + 1, root)

findNode(nodes, id) == findNodeFrom(nodes, id, 1, TRUE)

(***************************************************************************)
(* The updater closures passed to updateNode, as tagged records.           *)
(***************************************************************************)
toggleUpdater == [kind |-> "toggle"]
renameUpdater(newName) == [kind |-> "rename", name |-> newName]
loadingUpdater == [kind |-> "loading"]
loadedUpdater(children) == [kind |-> "loaded", children |-> children]
loadFailedUpdater == [kind |-> "loadFailed"]
detachUpdater(activeIndex) == [kind |-> "detach", index |-> activeIndex]
attachUpdater(activeNode) == [kind |-> "attach", node |-> activeNode]
siblingUpdater(activeNode, targetIndex) ==
  [kind |-> "sibling", node |-> activeNode, index |-> targetIndex]

\* splice(targetIndex, 0, item) on a copy; targetIndex 1-based, clamped
splice(s, targetIndex, item) ==
  LET t == IF targetIndex > Len(s) + 1 THEN Len(s) + 1 ELSE targetIndex
  IN [k \in 1..(Len(s) + 1) |->
        IF k < t THEN s[k] ELSE IF k = t THEN item ELSE s[k - 1]]

\* (node) => ({ ...node, isExpanded: !node.isExpanded })
toggled(node) == [node EXCEPT !.isExpanded = ~node.isExpanded]

\* (node) => ({ ...node, name: newName })
renamed(node, newName) == [node EXCEPT !.name = newName]

\* (node) => ({ ...node, isLoading: true })
loading(node) == [node EXCEPT !.isLoading = TRUE]

\* the node rebuilt without `...node`: its name is lost
loadedFromScratch(node, children) ==
  [id |-> node.id, name |-> "", hasChildren |-> TRUE, children |-> children,
   isExpanded |-> TRUE, isLoading |-> FALSE, hasLoaded |-> TRUE]

\* (node) => ({ ...node, children, isLoading: false, hasLoaded: true,
\*              isExpanded: true })
loaded(node, children) ==
  [node EXCEPT !.hasChildren = TRUE, !.children = children,
               !.isLoading = FALSE, !.hasLoaded = TRUE, !.isExpanded = TRUE]

\* (node) => ({ ...node, isLoading: false })
loadFailed(node) == [node EXCEPT !.isLoading = FALSE]

\* (node) => ({ ...node,
\*   children: node.children?.filter((_, i) => i !== activeIndex) || [] })
detached(node, activeIndex) ==
  [node EXCEPT !.hasChildren = TRUE,
               !.children = IF node.hasChildren
                              THEN filterIndex(node.children, activeIndex)
                              ELSE <<>>]

\* (node) => ({ ...node, children: [...(node.children || []), activeNode],
\*              isExpanded: true })
attached(node, activeNode) ==
  [node EXCEPT !.hasChildren = TRUE,
               !.children = Append(node.children, activeNode),
               !.isExpanded = TRUE]

\* (node) => { newChildren.splice(targetIndex, 0, activeNode);
\*             return { ...node, children: newChildren } }
siblingInserted(node, activeNode, targetIndex) ==
  [node EXCEPT !.hasChildren = TRUE,
               !.children = splice(node.children, targetIndex, activeNode)]

applyUpdater(u, node) ==
  CASE u.kind = "toggle" -> toggled(node)
    [] u.kind = "rename" -> renamed(node, u.name)
    [] u.kind = "loading" -> loading(node)
    [] u.kind = "loaded" -> loaded(node, u.children)
    [] u.kind = "loadFailed" -> loadFailed(node)
    [] u.kind = "detach" -> detached(node, u.index)
    [] u.kind = "attach" -> attached(node, u.node)
    [] u.kind = "sibling" -> siblingInserted(node, u.node, u.index)

RECURSIVE updateNode(_, _, _)
updateNode(nodes, id, updater) ==
  [i \in 1..Len(nodes) |->
     IF nodes[i].id = id THEN applyUpdater(updater, nodes[i])
     ELSE IF nodes[i].hasChildren
       THEN [nodes[i] EXCEPT !.children = updateNode(nodes[i].children, id, updater)]
       ELSE nodes[i]]

\* array.filter(pred) for pred = (node) => node.id !== id
RECURSIVE filterNotId(_, _)
filterNotId(nodes, id) ==
  IF nodes = <<>> THEN <<>>
  ELSE IF Head(nodes).id # id
    THEN <<Head(nodes)>> \o filterNotId(Tail(nodes), id)
    ELSE filterNotId(Tail(nodes), id)

RECURSIVE deleteNode(_, _)
deleteNode(nodes, id) ==
  LET kept == filterNotId(nodes, id)
  IN [i \in 1..Len(kept) |->
        IF kept[i].hasChildren
          THEN [kept[i] EXCEPT !.children = deleteNode(kept[i].children, id)]
          ELSE kept[i]]

\* the new node put in front of the children instead of behind them
RECURSIVE addChildNodeFirst(_, _, _)
addChildNodeFirst(nodes, parentId, child) ==
  [i \in 1..Len(nodes) |->
     IF nodes[i].id = parentId
       THEN [nodes[i] EXCEPT !.hasChildren = TRUE,
                             !.children = <<child>> \o nodes[i].children,
                             !.isExpanded = TRUE]
     ELSE IF nodes[i].hasChildren
       THEN [nodes[i] EXCEPT !.children = addChildNodeFirst(nodes[i].children, parentId, child)]
       ELSE nodes[i]]

RECURSIVE addChildNode(_, _, _)
addChildNode(nodes, parentId, child) ==
  [i \in 1..Len(nodes) |->
     IF nodes[i].id = parentId
       THEN [nodes[i] EXCEPT !.hasChildren = TRUE,
                             !.children = Append(nodes[i].children, child),
                             !.isExpanded = TRUE]
     ELSE IF nodes[i].hasChildren
       THEN [nodes[i] EXCEPT !.children = addChildNode(nodes[i].children, parentId, child)]
       ELSE nodes[i]]

\* isDescendant(nodeId, ancestor) of handleDragEnd
RECURSIVE isDescendant(_, _)
isDescendant(nodeId, ancestor) ==
  IF ancestor.id = nodeId THEN TRUE
  ELSE IF ancestor.hasChildren
    THEN \E k \in 1..Len(ancestor.children) :
           isDescendant(nodeId, ancestor.children[k])
    ELSE FALSE

\* the fetch returning a single node
simulateLazyLoadOne(firstId) == <<newNode(firstId, "Child 1")>>

\* simulateLazyLoad(): two nodes with freshly generated ids
simulateLazyLoad(firstId) ==
  <<newNode(firstId, "Child 1"), newNode(firstId + 1, "Child 2")>>

(***************************************************************************)
(* Measures of a forest (used to state the properties)                     *)
(***************************************************************************)
\* the ids of the forest in depth-first order, with repetitions
RECURSIVE flatIds(_)
flatIds(nodes) ==
  IF nodes = <<>> THEN <<>>
  ELSE <<Head(nodes).id>> \o flatIds(Head(nodes).children) \o flatIds(Tail(nodes))

nodeCount(nodes) == Len(flatIds(nodes))
idSet(nodes) == {flatIds(nodes)[k] : k \in 1..Len(flatIds(nodes))}

(***************************************************************************)
(* TreeView handlers                                                       *)
(***************************************************************************)
Op(op, id, over, name) == [op |-> op, id |-> id, over |-> over, name |-> name]

\* the ids a tree event may carry: the ids of the forest, or one not present
treeIds == idSet(data) \cup {UnknownId}

\* the guards of handleDragEnd: one of its `return`s is taken before setData
dragReturnsEarly(prev, activeId, overId) ==
  LET activeFound == findNode(prev, activeId)
      overFound == findNode(prev, overId)
  IN \/ overId = NoOver \/ activeId = overId
     \/ ~activeFound.found \/ ~overFound.found
     \/ activeFound.node.hasChildren /\ isDescendant(overId, activeFound.node)

\* the body of handleDragEnd's state updater, with the guards before it:
\* the new forest for active.id = activeId and over.id = overId
moveNode(prev, activeId, overId) ==
  LET activeFound == findNode(prev, activeId)
      overFound == findNode(prev, overId)
  IN
  IF dragReturnsEarly(prev, activeId, overId) THEN prev
  ELSE
    LET activeNode == activeFound.node
        activeParent == activeFound.parent
        activeIndex == activeFound.index
        overNode == overFound.node
        overParent == overFound.parent
        overIndex == overFound.index
        \* remove from active parent first
        updated == IF activeFound.root
                     THEN filterIndex(prev, activeIndex)
                     ELSE updateNode(prev, activeParent[1].id,
                                     detachUpdater(activeIndex))
        canHaveChildren == ~overNode.hasChildren \/ overNode.hasChildren
        targetIndex == IF overIndex >= activeIndex THEN overIndex + 1
                                                   ELSE overIndex
    IN IF canHaveChildren
         THEN updateNode(updated, overId, attachUpdater(activeNode))
         \* `overParent === updated` never holds: updated is a new array
         ELSE updateNode(updated, overParent[1].id,
                         siblingUpdater(activeNode, targetIndex))

TreeView_handleToggle(id) ==
  /\ ops < MaxOps
  /\ data' = updateNode(data, id, toggleUpdater)
  /\ lastOp' = Op("toggle", id, 0, "")
  /\ ops' = ops + 1
  /\ UNCHANGED <<inflight, nextId, treeData, kanbanVars>>

TreeView_handleAddChild(parentId, name) ==
  /\ ops < MaxOps
  /\ data' = addChildNode(data, parentId, newNode(nextId, name))
  /\ nextId' = nextId + 1
  /\ treeData' = data'
  /\ lastOp' = Op("addChild", parentId, nextId, name)
  /\ ops' = ops + 1
  /\ UNCHANGED <<inflight, kanbanVars>>

TreeView_handleEdit(id, newName) ==
  /\ ops < MaxOps
  /\ data' = updateNode(data, id, renameUpdater(newName))
  /\ treeData' = data'
  /\ lastOp' = Op("edit", id, 0, newName)
  /\ ops' = ops + 1
  /\ UNCHANGED <<inflight, nextId, kanbanVars>>

TreeView_handleDelete(id) ==
  /\ ops < MaxOps
  /\ data' = deleteNode(data, id)
  /\ treeData' = data'
  /\ lastOp' = Op("delete", id, 0, "")
  /\ ops' = ops + 1
  /\ UNCHANGED <<inflight, nextId, kanbanVars>>

\* handleLoadChildren up to its await
TreeView_handleLoadChildren(id) ==
  /\ ops < MaxOps
  /\ Len(inflight) < MaxInflight
  /\ data' = updateNode(data, id, loadingUpdater)
  /\ inflight' = Append(inflight, id)
  /\ lastOp' = Op("loadStart", id, 0, "")
  /\ ops' = ops + 1
  /\ UNCHANGED <<nextId, treeData, kanbanVars>>

\* a resolution that puts the node back when it is no longer in the forest
LoadResolvedUpsert ==
  /\ inflight # <<>>
  /\ data' = IF Head(inflight) \in idSet(data)
               THEN updateNode(data, Head(inflight),
                               loadedUpdater(simulateLazyLoad(nextId)))
               ELSE Append(data, loaded(newNode(Head(inflight), ""),
                                        simulateLazyLoad(nextId)))
  /\ nextId' = nextId + 2
  /\ inflight' = Tail(inflight)
  /\ treeData' = data'
  /\ lastOp' = Op("loadResolved", Head(inflight), nextId, "")
  /\ UNCHANGED <<ops, kanbanVars>>

\* handleLoadChildren after its await, the fetch having succeeded; the timers
\* all have the same delay, so the loads resolve in the order they started
LoadResolved ==
  /\ inflight # <<>>
  /\ data' = updateNode(data, Head(inflight),
                        loadedUpdater(simulateLazyLoad(nextId)))
  /\ nextId' = nextId + 2
  /\ inflight' = Tail(inflight)
  /\ treeData' = data'
  /\ lastOp' = Op("loadResolved", Head(inflight), nextId, "")
  /\ UNCHANGED <<ops, kanbanVars>>

\* handleLoadChildren after its await, the fetch having failed (catch branch)
LoadRejected ==
  /\ inflight # <<>>
  /\ data' = updateNode(data, Head(inflight), loadFailedUpdater)
  /\ inflight' = Tail(inflight)
  /\ lastOp' = Op("loadRejected", Head(inflight), 0, "")
  /\ UNCHANGED <<nextId, ops, treeData, kanbanVars>>

TreeView_handleDragEnd(activeId, overId) ==
  /\ ops < MaxOps
  /\ data' = moveNode(data, activeId, overId)
  /\ treeData' = IF dragReturnsEarly(data, activeId, overId) THEN treeData
                                                             ELSE data'
  /\ lastOp' = Op("dragEnd", activeId, overId, "")
  /\ ops' = ops + 1
  /\ UNCHANGED <<inflight, nextId, kanbanVars>>

(***************************************************************************)
(* TreeNode component (tree-view/src/TreeNode.tsx)                         *)
(***************************************************************************)
\* the nodes a TreeNode component is mounted for: the roots, and the children
\* of a mounted node when `node.isExpanded && hasChildren`
RECURSIVE renderedNodes(_)
renderedNodes(nodes) ==
  UNION {{nodes[k]} \cup (IF nodes[k].isExpanded /\ Len(nodes[k].children) > 0
                             THEN renderedNodes(nodes[k].children)
                             ELSE {}) : k \in 1..Len(nodes)}

\* handleToggle of the component mounted for node (handleExpandIconClick
\* calls it), with the onLoadChildren and onToggle it calls
TreeNode_handleToggle(node) ==
  LET hasChildren == node.hasChildren /\ Len(node.children) > 0
      isLeaf == ~hasChildren /\ ~node.hasChildren
      loadStarts == ~isLeaf /\ ~node.hasLoaded /\ ~node.hasChildren
      afterLoad == IF loadStarts THEN updateNode(data, node.id, loadingUpdater)
                                 ELSE data
  IN /\ ops < MaxOps
     /\ loadStarts => Len(inflight) < MaxInflight
     /\ inflight' = IF loadStarts THEN Append(inflight, node.id) ELSE inflight
     /\ data' = IF ~isLeaf THEN updateNode(afterLoad, node.id, toggleUpdater)
                           ELSE data
     /\ lastOp' = Op("click", node.id, 0, "")
     /\ ops' = ops + 1
     /\ UNCHANGED <<nextId, treeData, kanbanVars>>

(***************************************************************************)
(* KanbanBoard                                                             *)
(***************************************************************************)
\* column ids ('todo', 'in-progress', 'done'); card ids are minted above them
todo == 1
inProgress == 2
done == 3

Card(id, title) == [id |-> id, title |-> title]
Column(id, title, cards) == [id |-> id, title |-> title, cards |-> cards]

cardIdsOf(col) == {col.cards[k].id : k \in 1..Len(col.cards)}
columnIds == {columns[c].id : c \in 1..Len(columns)}
cardIds == UNION {cardIdsOf(columns[c]) : c \in 1..Len(columns)}

\* cards.findIndex((c) => c.id === id), 1-based, 0 for "not found" (-1)
findIndex(cards, id) ==
  IF \E k \in 1..Len(cards) : cards[k].id = id
    THEN CHOOSE k \in 1..Len(cards) :
           /\ cards[k].id = id
           /\ \A j \in 1..(k - 1) : cards[j].id # id
    ELSE 0

\* the loop `for (const col of columns) { findIndex ...; break }`: the position
\* of the first column holding the card, 0 if none does
findColumnOf(cols, id) ==
  IF \E c \in 1..Len(cols) : findIndex(cols[c].cards, id) # 0
    THEN CHOOSE c \in 1..Len(cols) :
           /\ findIndex(cols[c].cards, id) # 0
           /\ \A b \in 1..(c - 1) : findIndex(cols[b].cards, id) = 0
    ELSE 0

\* the filter forgotten: the card stays in its source column
filterCardsKeepsAll(cards, id) == cards

\* cards.filter((c) => c.id !== id)
RECURSIVE filterCards(_, _)
filterCards(cards, id) ==
  IF cards = <<>> THEN <<>>
  ELSE IF Head(cards).id # id
    THEN <<Head(cards)>> \o filterCards(Tail(cards), id)
    ELSE filterCards(Tail(cards), id)

\* the index shifted down for the removed slot
adjustedIndexShifted(targetCardIndex, sourceIndex) ==
  IF targetCardIndex > sourceIndex THEN targetCardIndex - 1 ELSE targetCardIndex

\* const adjustedIndex = targetCardIndex > sourceIndex ? targetCardIndex : targetCardIndex
adjustedIndex(targetCardIndex, sourceIndex) ==
  IF targetCardIndex > sourceIndex THEN targetCardIndex ELSE targetCardIndex

\* handleDragEnd of KanbanBoard takes one of its `return`s before setColumns
dropReturnsEarly(prev, activeId, overId) ==
  LET sourceCol == findColumnOf(prev, activeId)
      targetCol == findColumnOf(prev, overId)
  IN \/ overId = NoOver \/ activeId = overId
     \/ sourceCol = 0
     \/ IF \E c \in 1..Len(prev) : prev[c].id = overId
          THEN overId = prev[sourceCol].id
          ELSE \/ targetCol = 0
               \/ /\ prev[sourceCol].id = prev[targetCol].id
                  /\ findIndex(prev[targetCol].cards, overId)
                       = findIndex(prev[sourceCol].cards, activeId)

\* handleDragEnd of KanbanBoard: the new columns for active.id = activeId and
\* over.id = overId
moveCard(prev, activeId, overId) ==
  LET sourceCol == findColumnOf(prev, activeId)
      targetCol == findColumnOf(prev, overId)
  IN
  IF overId = NoOver \/ activeId = overId THEN prev
  ELSE IF sourceCol = 0 THEN prev
  ELSE
    LET sourceColumn == prev[sourceCol]
        sourceIndex == findIndex(sourceColumn.cards, activeId)
        card == sourceColumn.cards[sourceIndex]
    IN
    IF \E c \in 1..Len(prev) : prev[c].id = overId
      THEN \* dropped on a column droppable area
        IF overId = sourceColumn.id THEN prev
        ELSE [c \in 1..Len(prev) |->
                IF prev[c].id = sourceColumn.id
                  THEN [prev[c] EXCEPT !.cards = filterCards(prev[c].cards, activeId)]
                ELSE IF prev[c].id = overId
                  THEN [prev[c] EXCEPT !.cards = Append(prev[c].cards, card)]
                ELSE prev[c]]
    ELSE IF targetCol = 0 THEN prev
    ELSE
      LET targetColumnId == prev[targetCol].id
          targetCardIndex == findIndex(prev[targetCol].cards, overId)
      IN
      IF sourceColumn.id = targetColumnId
        THEN IF targetCardIndex = sourceIndex THEN prev
             ELSE LET newCards ==
                        splice(filterIndex(sourceColumn.cards, sourceIndex),
                               adjustedIndex(targetCardIndex, sourceIndex), card)
                  IN [c \in 1..Len(prev) |->
                        IF prev[c].id = sourceColumn.id
                          THEN [prev[c] EXCEPT !.cards = newCards]
                          ELSE prev[c]]
        ELSE [c \in 1..Len(prev) |->
                IF prev[c].id = sourceColumn.id
                  THEN [prev[c] EXCEPT !.cards = filterCards(prev[c].cards, activeId)]
                ELSE IF prev[c].id = targetColumnId
                  THEN [prev[c] EXCEPT !.cards = splice(prev[c].cards, targetCardIndex, card)]
                ELSE prev[c]]

\* a card for a column that does not exist put in the first column
KanbanBoard_handleAddCardAnywhere(columnId, title) ==
  /\ ops < MaxOps
  /\ columns' = [c \in 1..Len(columns) |->
                   IF columns[c].id = columnId \/ (columnId \notin columnIds /\ c = 1)
                     THEN [columns[c] EXCEPT !.cards = Append(columns[c].cards, Card(cardSeq, title))]
                     ELSE columns[c]]
  /\ cardSeq' = cardSeq + 1
  /\ appColumns' = columns'
  /\ lastOp' = Op("addCard", columnId, cardSeq, title)
  /\ ops' = ops + 1
  /\ UNCHANGED treeVars

KanbanBoard_handleAddCard(columnId, title) ==
  /\ ops < MaxOps
  /\ columns' = [c \in 1..Len(columns) |->
                   IF columns[c].id = columnId
                     THEN [columns[c] EXCEPT !.cards = Append(columns[c].cards, Card(cardSeq, title))]
                     ELSE columns[c]]
  /\ cardSeq' = cardSeq + 1
  /\ appColumns' = columns'
  /\ lastOp' = Op("addCard", columnId, cardSeq, title)
  /\ ops' = ops + 1
  /\ UNCHANGED treeVars

KanbanBoard_handleEditCard(cardId, newTitle) ==
  /\ ops < MaxOps
  /\ columns' = [c \in 1..Len(columns) |->
                   [columns[c] EXCEPT !.cards =
                      [k \in 1..Len(columns[c].cards) |->
                         IF columns[c].cards[k].id = cardId
                           THEN [columns[c].cards[k] EXCEPT !.title = newTitle]
                           ELSE columns[c].cards[k]]]]
  /\ appColumns' = columns'
  /\ lastOp' = Op("editCard", cardId, 0, newTitle)
  /\ ops' = ops + 1
  /\ UNCHANGED <<cardSeq, treeVars>>

KanbanBoard_handleDeleteCard(cardId) ==
  /\ ops < MaxOps
  /\ columns' = [c \in 1..Len(columns) |->
                   [columns[c] EXCEPT !.cards = filterCards(columns[c].cards, cardId)]]
  /\ appColumns' = columns'
  /\ lastOp' = Op("deleteCard", cardId, 0, "")
  /\ ops' = ops + 1
  /\ UNCHANGED <<cardSeq, treeVars>>

KanbanBoard_handleDragEnd(activeId, overId) ==
  /\ ops < MaxOps
  /\ columns' = moveCard(columns, activeId, overId)
  /\ appColumns' = IF dropReturnsEarly(columns, activeId, overId)
                     THEN appColumns ELSE columns'
  /\ lastOp' = Op("cardDragEnd", activeId, overId, "")
  /\ ops' = ops + 1
  /\ UNCHANGED <<cardSeq, treeVars>>

(***************************************************************************)
(* Initial states                                                          *)
(***************************************************************************)
\* the forest of tree-view/src/App.tsx without its last root, the first
\* nested node holding one child
initialData ==
  << TreeNode(1, "Documents", TRUE,
       << TreeNode(2, "Work", TRUE, <<newNode(3, "Notes")>>, FALSE, FALSE),
          newNode(4, "Personal") >>, TRUE, TRUE),
     newNode(5, "Projects") >>

\* a chain three deep, a loaded node whose children array is empty, and a
\* never-loaded root
deepData ==
  << TreeNode(1, "Documents", TRUE,
       << newNode(2, "Work"),
          TreeNode(3, "Personal", TRUE,
            <<TreeNode(4, "Notes", TRUE, <<>>, TRUE, TRUE)>>, TRUE, TRUE) >>,
       FALSE, TRUE),
     newNode(5, "Projects") >>

initialForests == {initialData, deepData}

\* the columns of kanban-board/src/App.tsx with fewer cards
initialColumns ==
  << Column(todo, "Todo", <<Card(11, "Design UI mockups"),
                            Card(12, "Set up project structure"),
                            Card(13, "Create user stories")>>),
     Column(inProgress, "In Progress", <<Card(14, "Implement authentication")>>),
     Column(done, "Done", <<>>) >>

firstNodeId == 6
firstCardId == 15

Init ==
  /\ data \in initialForests
  /\ inflight = <<>>
  /\ nextId = firstNodeId
  /\ columns = initialColumns
  /\ cardSeq = firstCardId
  /\ lastOp = Op("init", 0, 0, "")
  /\ ops = 0
  /\ treeData = data
  /\ appColumns = columns

KanbanInit ==
  /\ data = initialData
  /\ inflight = <<>>
  /\ nextId = firstNodeId
  /\ columns = initialColumns
  /\ cardSeq = firstCardId
  /\ lastOp = Op("init", 0, 0, "")
  /\ ops = 0
  /\ treeData = data
  /\ appColumns = columns

(***************************************************************************)
(* Specifications                                                          *)
(***************************************************************************)
\* the events the TreeView can receive
Next ==
  \/ \E id \in treeIds : TreeView_handleToggle(id)
  \/ \E id \in treeIds, name \in Names : TreeView_handleAddChild(id, name)
  \/ \E id \in treeIds, name \in Names : TreeView_handleEdit(id, name)
  \/ \E id \in treeIds : TreeView_handleDelete(id)
  \/ \E id \in treeIds : TreeView_handleLoadChildren(id)
  \/ LoadResolved
  \/ LoadRejected
  \/ \E a \in treeIds, o \in treeIds \cup {NoOver} : TreeView_handleDragEnd(a, o)

Spec == Init /\ [][Next]_vars

\* the timer of simulateLazyLoad always fires: a pending load resolves
FairInit == Init /\ data = initialData

FairSpec == FairInit /\ [][Next]_vars /\ WF_vars(LoadResolved \/ LoadRejected)

\* the events the KanbanBoard can receive
KanbanNext ==
  \/ \E col \in columnIds \cup {UnknownId}, title \in Names :
       KanbanBoard_handleAddCard(col, title)
  \/ \E card \in cardIds \cup {UnknownId}, title \in Names :
       KanbanBoard_handleEditCard(card, title)
  \/ \E card \in cardIds \cup {UnknownId} : KanbanBoard_handleDeleteCard(card)
  \/ \E a \in cardIds \cup {UnknownId},
        o \in cardIds \cup columnIds \cup {UnknownId, NoOver} :
       KanbanBoard_handleDragEnd(a, o)

KanbanSpec == KanbanInit /\ [][KanbanNext]_vars

\* the TreeView with the clicks its TreeNode components pass on
UiNext ==
  \/ Next
  \/ \E node \in renderedNodes(data) : TreeNode_handleToggle(node)

UiSpec == Init /\ [][UiNext]_vars

\* the two applications: a behaviour is one of the tree-view App or one of
\* the kanban-board App
TreeEvents == {"toggle", "addChild", "edit", "delete", "loadStart",
               "loadResolved", "loadRejected", "dragEnd"}
BoardEvents == {"addCard", "editCard", "deleteCard", "cardDragEnd"}

AppsNext ==
  \/ lastOp.op \notin BoardEvents /\ Next
  \/ lastOp.op \notin TreeEvents /\ KanbanNext

AppsSpec == Init /\ [][AppsNext]_vars

(***************************************************************************)
(* Vocabulary of the properties                                            *)
(***************************************************************************)
\* number of times id occurs in the forest
occurrences(nodes, id) ==
  Cardinality({k \in 1..Len(flatIds(nodes)) : flatIds(nodes)[k] = id})

\* the ids of the subtree rooted at the first node (depth first) with this id
subtreeIds(nodes, id) == idSet(<<findNode(nodes, id).node>>)

\* a drag-end of source onto target that is neither a no-op on missing ids
\* nor rejected by the cycle guard
accepted(nodes, source, target) ==
  /\ source \in idSet(nodes)
  /\ target \in idSet(nodes)
  /\ source # target
  /\ target \notin subtreeIds(nodes, source)

\* some node of the forest has a descendant carrying its own id
RECURSIVE selfAncestor(_)
selfAncestor(nodes) ==
  \E k \in 1..Len(nodes) :
    \/ nodes[k].id \in idSet(nodes[k].children)
    \/ selfAncestor(nodes[k].children)

(***************************************************************************)
(* C1: every node id occurs at most once in the whole forest, in every     *)
(* forest reachable from a forest of distinct ids.                         *)
(* Violated: a drag-end whose source is nested never detaches the source.  *)
(***************************************************************************)
C1_UniqueNodeIds == Len(flatIds(data)) = Cardinality(idSet(data))

(***************************************************************************)
(* C2: an accepted drag-end move leaves the number of nodes of the forest  *)
(* unchanged, for root sources and nested sources alike.                   *)
(***************************************************************************)
C2_MoveConservesCount ==
  [][(lastOp'.op = "dragEnd" /\ accepted(data, lastOp'.id, lastOp'.over))
       => nodeCount(data') = nodeCount(data)]_vars

(***************************************************************************)
(* C3: after an accepted move of source onto target the source subtree     *)
(* occurs exactly once in the forest (so no longer where it was), namely   *)
(* unmodified as the last child of target, and target is expanded.         *)
(***************************************************************************)
C3_DetachThenInsert ==
  [][(lastOp'.op = "dragEnd" /\ accepted(data, lastOp'.id, lastOp'.over))
       => LET source == findNode(data, lastOp'.id).node
              target == findNode(data', lastOp'.over)
          IN /\ occurrences(data', source.id) = 1
             /\ target.found
             /\ target.node.isExpanded
             /\ target.node.children # <<>>
             /\ target.node.children[Len(target.node.children)] = source]_vars

(***************************************************************************)
(* C4: a drag-end whose target is the source or lies in the source's       *)
(* subtree leaves the forest unchanged, and so no node is ever its own     *)
(* ancestor.                                                               *)
(***************************************************************************)
C4_CycleRejection ==
  /\ [][(lastOp'.op = "dragEnd" /\ lastOp'.id \in idSet(data)
           /\ lastOp'.over \in subtreeIds(data, lastOp'.id))
          => data' = data]_vars
  /\ [](~selfAncestor(data))

(***************************************************************************)
(* Kanban vocabulary                                                       *)
(***************************************************************************)
\* the card ids of the board, column after column
RECURSIVE boardCardIds(_)
boardCardIds(cols) ==
  IF cols = <<>> THEN <<>>
  ELSE [k \in 1..Len(Head(cols).cards) |-> Head(cols).cards[k].id]
         \o boardCardIds(Tail(cols))

columnOfId(cols, id) == cols[CHOOSE c \in 1..Len(cols) : cols[c].id = id]
cardIdSeq(col) == [k \in 1..Len(col.cards) |-> col.cards[k].id]
positionIn(seq, x) == CHOOSE k \in 1..Len(seq) : seq[k] = x
without(seq, x) == SelectSeq(seq, LAMBDA y : y # x)
holderOf(cols, card) ==
  cols[CHOOSE c \in 1..Len(cols) : card \in cardIdsOf(cols[c])]

(***************************************************************************)
(* C5: every card id is in exactly one column and exactly once there, and  *)
(* a drag-end never changes the set of card ids of the board.              *)
(***************************************************************************)
C5_CardOwnership ==
  /\ [](Len(boardCardIds(columns)) = Cardinality(cardIds))
  /\ [][lastOp'.op = "cardDragEnd" => cardIds' = cardIds]_vars

\* a card was dropped on a card of another column and sits there now
C5_Witness ==
  /\ lastOp.op = "cardDragEnd"
  /\ lastOp.id = 11 /\ lastOp.over = 14
  /\ cardIdSeq(columnOfId(columns, inProgress)) = <<11, 14>>
  /\ cardIdSeq(columnOfId(columns, todo)) = <<12, 13>>

(***************************************************************************)
(* C6: a card dropped on a column's droppable area ends up as the last     *)
(* card of that column, its own column included.                           *)
(* Violated: the drop on the card's own column returns early.              *)
(***************************************************************************)
C6_DropOnColumnAppends ==
  [][(lastOp'.op = "cardDragEnd" /\ lastOp'.id \in cardIds
        /\ lastOp'.over \in columnIds)
       => LET col == columnOfId(columns', lastOp'.over)
          IN /\ col.cards # <<>>
             /\ col.cards[Len(col.cards)].id = lastOp'.id]_vars

(***************************************************************************)
(* C7: a card at index s dropped on another card at index t of the same    *)
(* column sits at index t afterwards, the other cards keeping their        *)
(* relative order ([c1,c2,c3] with c1 dropped on c3 becomes [c2,c3,c1]);   *)
(* a card dropped on itself changes nothing.                               *)
(***************************************************************************)
C7_SameColumnReorder ==
  [][lastOp'.op = "cardDragEnd" /\ lastOp'.id \in cardIds =>
       LET a == lastOp'.id
           o == lastOp'.over
           before == cardIdSeq(holderOf(columns, a))
       IN /\ (a = o => columns' = columns)
          /\ (a # o /\ o \in cardIdsOf(holderOf(columns, a)) =>
                LET after == cardIdSeq(columnOfId(columns', holderOf(columns, a).id))
                IN /\ Len(after) = Len(before)
                   /\ after[positionIn(before, o)] = a
                   /\ without(after, a) = without(before, a)
                   /\ \A c \in 1..Len(columns) :
                        columns[c].id # holderOf(columns, a).id
                          => columns'[c] = columns[c]
                   /\ (before = <<11, 12, 13>> /\ a = 11 /\ o = 13
                         => after = <<12, 13, 11>>))]_vars

\* c1 of [c1, c2, c3] was dropped on c3
C7_Witness ==
  /\ lastOp.op = "cardDragEnd"
  /\ lastOp.id = 11 /\ lastOp.over = 13
  /\ cardIdSeq(columnOfId(columns, todo)) = <<12, 13, 11>>

(***************************************************************************)
(* Lazy-load vocabulary                                                    *)
(***************************************************************************)
\* every id an event or a load can carry within the bounds
AllIds == 0..(firstNodeId + 2 * MaxOps)

present(nodes, id) == id \in idSet(nodes)
theNode(nodes, id) == findNode(nodes, id).node
resolvedOp(op) == op.op \in {"loadResolved", "loadRejected"}
pendingIds(queue) == {queue[k] : k \in 1..Len(queue)}

\* the list simulateLazyLoad returns when the first id it mints is firstId
fetched(firstId) ==
  << [id |-> firstId, name |-> "Child 1", hasChildren |-> FALSE,
      children |-> <<>>, isExpanded |-> FALSE, isLoading |-> FALSE,
      hasLoaded |-> FALSE],
     [id |-> firstId + 1, name |-> "Child 2", hasChildren |-> FALSE,
      children |-> <<>>, isExpanded |-> FALSE, isLoading |-> FALSE,
      hasLoaded |-> FALSE] >>

\* every pending load resolves
LoadsResolve ==
  \A n \in AllIds :
    (inflight # <<>> /\ Head(inflight) = n) ~> (resolvedOp(lastOp) /\ lastOp.id = n)

\* a successful resolution on a node still in the forest leaves it with
\* exactly the two fetched nodes, loaded, expanded and not loading
ResolvedLoaded ==
  (lastOp.op = "loadResolved" /\ present(data, lastOp.id)) =>
     LET n == theNode(data, lastOp.id)
     IN /\ n.hasChildren /\ n.children = fetched(lastOp.over)
        /\ n.hasLoaded /\ n.isExpanded /\ ~n.isLoading

\* the fetched nodes carry ids the forest did not hold
FetchedFresh ==
  lastOp'.op = "loadResolved" =>
    {lastOp'.over, lastOp'.over + 1} \cap idSet(data) = {}

\* starting a load sets isLoading
StartSetsLoading ==
  (lastOp'.op = "loadStart" /\ present(data', lastOp'.id)) =>
     theNode(data', lastOp'.id).isLoading

(***************************************************************************)
(* C8 as claimed: a load started on a node with children undefined and     *)
(* hasLoaded false resolves, leaving the node (if still there and the      *)
(* fetch succeeded) with exactly the two fetched nodes, hasLoaded,         *)
(* isExpanded and not isLoading; and while a load of the node is pending   *)
(* the node is loading.                                                    *)
(* Violated: with two loads of the node pending, the resolution of the     *)
(* first clears isLoading while the second is still pending.               *)
(***************************************************************************)
C8_LoadingWhilePending ==
  /\ LoadsResolve
  /\ []ResolvedLoaded
  /\ [][/\ FetchedFresh
        /\ StartSetsLoading
        /\ \A n \in pendingIds(inflight') :
             (/\ present(data, n) /\ present(data', n)
              /\ ~theNode(data, n).hasChildren /\ ~theNode(data, n).hasLoaded)
               => theNode(data', n).isLoading]_vars

(***************************************************************************)
(* C8 amended: as above, but the node is loading from the start of a load  *)
(* until the next resolution of a load of that node (its own resolution    *)
(* when no other load of the node is pending).                             *)
(***************************************************************************)
C8_LazyLoadCompletes ==
  /\ LoadsResolve
  /\ []ResolvedLoaded
  /\ [][/\ FetchedFresh
        /\ StartSetsLoading
        /\ \A n \in pendingIds(inflight) :
             (/\ present(data, n) /\ present(data', n)
              /\ theNode(data, n).isLoading
              /\ ~(resolvedOp(lastOp') /\ lastOp'.id = n))
               => theNode(data', n).isLoading]_vars

\* a load of the never-loaded root Projects has resolved
C8_Witness ==
  /\ lastOp.op = "loadResolved" /\ lastOp.id = 5
  /\ present(data, 5)
  /\ theNode(data, 5).children = fetched(lastOp.over)
  /\ theNode(data, 5).hasLoaded

(***************************************************************************)
(* C9: a resolution changes nothing but the children, isLoading, hasLoaded *)
(* and isExpanded of the node it is for: whatever the other handlers did   *)
(* to the forest since the load started is still there afterwards.         *)
(***************************************************************************)
\* the forest with those four fields blanked on the nodes carrying id
RECURSIVE masked(_, _)
masked(nodes, id) ==
  [i \in 1..Len(nodes) |->
     IF nodes[i].id = id
       THEN [nodes[i] EXCEPT !.hasChildren = FALSE, !.children = <<>>,
                             !.isLoading = FALSE, !.hasLoaded = FALSE,
                             !.isExpanded = FALSE]
       ELSE [nodes[i] EXCEPT !.children = masked(nodes[i].children, id)]]

C9_ResolutionOnCurrentSnapshot ==
  [][resolvedOp(lastOp') =>
       masked(data', lastOp'.id) = masked(data, lastOp'.id)]_vars

\* Projects was renamed and its load resolved: the new name is still there
C9_Witness ==
  /\ lastOp.op = "loadResolved" /\ lastOp.id = 5
  /\ present(data, 5) /\ theNode(data, 5).hasLoaded
  /\ theNode(data, 5).name = "x"
  /\ theNode(data, 5).children = fetched(lastOp.over)

(***************************************************************************)
(* C10: when the node of a pending load is no longer in the forest (it or  *)
(* an ancestor was deleted), the resolution, success or failure, leaves    *)
(* the forest as it was: the node is not re-created, by the resolution or  *)
(* by any other step, and no fetched node is inserted.                     *)
(***************************************************************************)
C10_DeleteDuringLoad ==
  [][/\ (resolvedOp(lastOp') /\ ~present(data, lastOp'.id)) => data' = data
     /\ (lastOp'.op = "loadResolved" /\ ~present(data, lastOp'.id)) =>
          {lastOp'.over, lastOp'.over + 1} \cap idSet(data') = {}
     /\ \A n \in pendingIds(inflight) :
          ~present(data, n) => ~present(data', n)]_vars

\* the load of Notes resolved after its ancestor Documents was deleted
C10_Witness ==
  /\ lastOp.op = "loadResolved" /\ lastOp.id = 3
  /\ ~present(data, 3) /\ ~present(data, 1)

(***************************************************************************)
(* C11: every handler that changes the snapshot passes the new snapshot to *)
(* the on-change callback, so the snapshot last delivered to the callback  *)
(* (the one the App holds) is always the component's current snapshot.     *)
(* Violated: handleToggle and handleLoadChildren before its await and in   *)
(* its catch branch change the forest without calling onDataChange.        *)
(***************************************************************************)
C11_ChangeNotification == treeData = data /\ appColumns = columns

(***************************************************************************)
(* C12: a toggle flips isExpanded on the node with the given id and        *)
(* changes nothing else; on a leaf without children (children absent, or   *)
(* present but empty) it changes nothing at all.                           *)
(* Violated: handleToggle flips isExpanded whatever the node's children.   *)
(***************************************************************************)
\* the forest with isExpanded blanked on the nodes carrying id
RECURSIVE expansionMasked(_, _)
expansionMasked(nodes, id) ==
  [i \in 1..Len(nodes) |->
     IF nodes[i].id = id
       THEN [nodes[i] EXCEPT !.isExpanded = FALSE]
       ELSE [nodes[i] EXCEPT !.children = expansionMasked(nodes[i].children, id)]]

childless(node) == ~node.hasChildren \/ node.children = <<>>

C12_ToggleFrame ==
  [][(lastOp'.op = "toggle" /\ present(data, lastOp'.id)) =>
       IF childless(theNode(data, lastOp'.id))
         THEN data' = data
         ELSE /\ present(data', lastOp'.id)
              /\ theNode(data', lastOp'.id).isExpanded
                   = ~theNode(data, lastOp'.id).isExpanded
              /\ expansionMasked(data', lastOp'.id)
                   = expansionMasked(data, lastOp'.id)]_vars

(***************************************************************************)
(* C13: in every reachable forest, deleting an id that is present removes  *)
(* the node and its descendants and nothing else: the number of nodes      *)
(* drops by the size of the subtree rooted at the node, and every node     *)
(* outside the subtree stays, with the same parent and in the same order.  *)
(* Violated: deleteNode removes every node carrying the id, and a nested   *)
(* move leaves two of them.                                                *)
(***************************************************************************)
\* the id the root list stands under in parentOf
TopLevel == UnknownId

\* the id of the parent of the first node (depth first) carrying id, as a
\* one-element sequence; <<>> when no node carries id
RECURSIVE parentFrom(_, _, _)
parentFrom(nodes, id, parent) ==
  IF nodes = <<>> THEN <<>>
  ELSE IF Head(nodes).id = id THEN <<parent>>
  ELSE LET below == parentFrom(Head(nodes).children, id, Head(nodes).id)
       IN IF below # <<>> THEN below
          ELSE parentFrom(Tail(nodes), id, parent)

parentOf(nodes, id) == parentFrom(nodes, id, TopLevel)

C13_DeleteRemovesOneSubtree ==
  [][(lastOp'.op = "delete" /\ present(data, lastOp'.id)) =>
       LET removed == subtreeIds(data, lastOp'.id)
       IN /\ nodeCount(data')
               = nodeCount(data) - nodeCount(<<theNode(data, lastOp'.id)>>)
          /\ flatIds(data')
               = SelectSeq(flatIds(data), LAMBDA n : n \notin removed)
          /\ \A n \in idSet(data) \ removed :
               parentOf(data', n) = parentOf(data, n)]_vars

(***************************************************************************)
(* C14: an operation on an id that is not present leaves the snapshot as   *)
(* it was: tree edit, delete, toggle, addChild (unknown parent) and        *)
(* drag-end (unknown source or unknown target); kanban editCard,           *)
(* deleteCard, addCard (unknown column) and drag-end (unknown active or    *)
(* unknown over).                                                          *)
(***************************************************************************)
C14_NoOpOnMissingId ==
  [][/\ (/\ lastOp'.op \in {"edit", "delete", "toggle", "addChild"}
         /\ ~present(data, lastOp'.id)) => data' = data
     /\ (/\ lastOp'.op = "dragEnd"
         /\ ~present(data, lastOp'.id) \/ ~present(data, lastOp'.over))
          => data' = data
     /\ (/\ lastOp'.op \in {"editCard", "deleteCard"}
         /\ lastOp'.id \notin cardIds) => columns' = columns
     /\ (lastOp'.op = "addCard" /\ lastOp'.id \notin columnIds)
          => columns' = columns
     /\ (/\ lastOp'.op = "cardDragEnd"
         /\ \/ lastOp'.id \notin cardIds
            \/ lastOp'.over \notin cardIds \cup columnIds)
          => columns' = columns]_vars

\* Personal, of a forest already edited, was dropped on an id that is not there
C14_Witness ==
  /\ lastOp.op = "dragEnd"
  /\ present(data, lastOp.id) /\ lastOp.id = 4
  /\ lastOp.over = UnknownId
  /\ ops = MaxOps
  /\ data \notin initialForests

(***************************************************************************)
(* C15: in a forest (node ids pairwise distinct), addChild on a parent P   *)
(* that is present, at any depth, appends exactly one node (a fresh id,    *)
(* the given name, hasLoaded false, no children field) behind P's          *)
(* children, the children array being created when absent, and sets P's    *)
(* isExpanded; P's other fields, P's former children and their order, and  *)
(* every other node are as before.                                         *)
(***************************************************************************)
\* the forest with children and isExpanded blanked on the nodes carrying id
RECURSIVE childrenMasked(_, _)
childrenMasked(nodes, id) ==
  [i \in 1..Len(nodes) |->
     IF nodes[i].id = id
       THEN [nodes[i] EXCEPT !.hasChildren = FALSE, !.children = <<>>,
                             !.isExpanded = FALSE]
       ELSE [nodes[i] EXCEPT !.children = childrenMasked(nodes[i].children, id)]]

C15_AddChildAppends ==
  [][(lastOp'.op = "addChild" /\ present(data, lastOp'.id) /\ C1_UniqueNodeIds)
       => LET P == theNode(data, lastOp'.id)
              added == [id |-> lastOp'.over, name |-> lastOp'.name,
                        hasChildren |-> FALSE, children |-> <<>>,
                        isExpanded |-> FALSE, isLoading |-> FALSE,
                        hasLoaded |-> FALSE]
          IN /\ ~present(data, added.id)
             /\ nodeCount(data') = nodeCount(data) + 1
             /\ present(data', P.id)
             /\ theNode(data', P.id).hasChildren
             /\ theNode(data', P.id).children = Append(P.children, added)
             /\ theNode(data', P.id).isExpanded
             /\ childrenMasked(data', P.id) = childrenMasked(data, P.id)]_vars

\* a child was added to Notes, three levels deep and without a children field
C15_Witness ==
  /\ lastOp.op = "addChild" /\ lastOp.id = 3
  /\ parentOf(data, 3) = <<2>> /\ parentOf(data, 2) = <<1>>
  /\ theNode(data, 3).children = <<newNode(lastOp.over, "x")>>
  /\ theNode(data, 3).isExpanded
  /\ C1_UniqueNodeIds

(***************************************************************************)
(* C16: a click on the expand control of a mounted node whose children is  *)
(* undefined and whose hasLoaded is false makes the component call         *)
(* onLoadChildren for the node (a load of the node becomes pending and the *)
(* node is loading) and then onToggle (isExpanded flips).                  *)
(* Violated: such a node is a leaf for the component (isLeaf is            *)
(* `!hasChildren && !node.children`), and handleToggle does nothing on a   *)
(* leaf.                                                                   *)
(***************************************************************************)
\* every mounted node carrying id has children undefined and hasLoaded false
neverLoaded(nodes, id) ==
  /\ \E node \in renderedNodes(nodes) : node.id = id
  /\ \A node \in renderedNodes(nodes) :
       node.id = id => ~node.hasChildren /\ ~node.hasLoaded

C16_ExpandTriggersLoad ==
  [][(lastOp'.op = "click" /\ neverLoaded(data, lastOp'.id)) =>
       /\ inflight' = Append(inflight, lastOp'.id)
       /\ present(data', lastOp'.id)
       /\ theNode(data', lastOp'.id).isLoading
       /\ theNode(data', lastOp'.id).isExpanded
            = ~theNode(data, lastOp'.id).isExpanded]_vars

(***************************************************************************)
(* C17: an accepted drag-end of source onto target changes only the        *)
(* children list the source was removed from and the target (its children  *)
(* and isExpanded): every other node keeps its fields, its children-present*)
(* state and the list of its children, the first sibling of a nested       *)
(* source included, and the source's former parent keeps its other fields. *)
(* Violated: the nested detach is applied to the first sibling of the      *)
(* source instead of its parent.                                           *)
(***************************************************************************)
\* a node with its children replaced by their ids
shallow(node) ==
  [node EXCEPT !.children = [k \in 1..Len(node.children) |-> node.children[k].id]]

C17_MoveFrame ==
  [][(lastOp'.op = "dragEnd" /\ accepted(data, lastOp'.id, lastOp'.over)) =>
       LET source == lastOp'.id
           target == lastOp'.over
           parent == parentOf(data, source)[1]
       IN /\ \A n \in idSet(data) \ {target, parent} :
               /\ present(data', n)
               /\ shallow(theNode(data', n)) = shallow(theNode(data, n))
          /\ (parent # TopLevel /\ parent # target) =>
               /\ present(data', parent)
               /\ [theNode(data', parent) EXCEPT !.children = <<>>]
                    = [theNode(data, parent) EXCEPT !.children = <<>>]]_vars

====
